---- MODULE Spec2Model ----
(***************************************************************************)
(* Model of scripts/line_count/collect_loc_history.py: the incremental     *)
(* collector that appends one row per commit day to loc_history.csv.       *)
(*                                                                         *)
(* The ledger file is modelled as its text: a sequence of tokens.  A token *)
(* is the text of one field or one punctuation character:                  *)
(*   n >= DayBase      the date text of day n - DayBase ("YYYY-MM-DD")     *)
(*   0 <= n < DayBase  the decimal text of the integer n                   *)
(*   n < 0             a comma, CR, LF, or a column name of the header     *)
(* Two tokens with no comma between them are the concatenation of their    *)
(* texts, which is neither a date nor an integer.                          *)
(***************************************************************************)
EXTENDS Integers, Sequences, FiniteSets, TLC

\* ------------------------------------------------------------------ bounds
MaxDay == 2        \* calendar days are 1..MaxDay
MaxCommits == 2    \* commits in the history
MaxSize == 1       \* a present subtree has a size in 1..MaxSize
MaxCrashes == 1    \* interrupted runs (SpecCrash only)
MaxClocLines == 2  \* lines of a cloc output (SpecOracle only)
MaxFailures == 1   \* failures of git, tar, mkdir, cloc or rmtree in a behaviour
MaxAge == 2        \* days between the first commit and now (SpecConsumers)

Days == 1..MaxDay
Sizes == 0..MaxSize      \* 0: the subtree does not exist at the commit

\* ------------------------------------------------------------------ tokens
DayBase == 100
Comma == -1
CR == -2
LF == -3
ColDate == -10
ColFrontendCode == -11
ColFrontendComment == -12
ColFrontendBlank == -13
ColBackendCode == -14
ColBackendComment == -15
ColBackendBlank == -16
ColTotalCode == -17
WordFiles == -20
WordLanguage == -21
WordSum == -22
WordOther == -23
WordBadDigit == -24  \* a text whose isdigit() is True and whose int() raises

NoCommit == 0      \* get_commit_for_date returned None
NoDate == <<>>     \* get_last_collected_date returned None (falsy, as "")
NoStats == <<>>    \* collect_stats_for_commit returned None
Absent == <<-98>>  \* the ledger file does not exist
NoCard == <<>>     \* get_project_stats has not been called
NoMilestones == <<>>  \* find_milestones has not been called

DayTok(d) == DayBase + d
IsDayTok(t) == t > DayBase
DayOf(t) == t - DayBase
\* str.isdigit() of the text of one token
IsDigit(t) == t >= 0 /\ t < DayBase

\* ----------------------------------------------------------- text helpers
RECURSIVE JoinFields(_)
\* csv.writer.writerow: the fields separated by commas, terminated by CRLF
JoinFields(fs) ==
  IF Len(fs) = 0 THEN <<CR, LF>>
  ELSE IF Len(fs) = 1 THEN <<fs[1], CR, LF>>
  ELSE <<fs[1], Comma>> \o JoinFields(Tail(fs))

writerow(fs) == JoinFields(fs)

HeaderFields ==
  <<ColDate, ColFrontendCode, ColFrontendComment, ColFrontendBlank,
    ColBackendCode, ColBackendComment, ColBackendBlank, ColTotalCode>>

HeaderText == writerow(HeaderFields)

IsPrefix(s, t) == Len(s) <= Len(t) /\ SubSeq(t, 1, Len(s)) = s

RECURSIVE SplitLines(_, _)
\* file.readlines() in universal-newline text mode: CRLF, CR and LF each end
\* a line; the returned lines are given here without their line end.  cur
\* is the line being accumulated.
SplitLines(txt, cur) ==
  IF Len(txt) = 0 THEN (IF Len(cur) = 0 THEN <<>> ELSE <<cur>>)
  ELSE IF txt[1] = CR /\ Len(txt) >= 2 /\ txt[2] = LF
       THEN <<cur>> \o SplitLines(SubSeq(txt, 3, Len(txt)), <<>>)
  ELSE IF txt[1] = CR \/ txt[1] = LF
       THEN <<cur>> \o SplitLines(Tail(txt), <<>>)
  ELSE SplitLines(Tail(txt), Append(cur, txt[1]))

readlines(txt) == SplitLines(txt, <<>>)

RECURSIVE SplitComma(_, _)
\* str.split(","): the fields of a line; a field is the sequence of tokens
\* between two commas
SplitComma(line, cur) ==
  IF Len(line) = 0 THEN <<cur>>
  ELSE IF line[1] = Comma THEN <<cur>> \o SplitComma(Tail(line), <<>>)
  ELSE SplitComma(Tail(line), Append(cur, line[1]))

split(line) == SplitComma(line, <<>>)

\* ----------------------------------------------------------------- history
\* A commit: ad is the author day (%ad --date=short), cd the day of its
\* commit timestamp (what --until filters on), fe and be the sizes of the
\* trees src and src-tauri/src (0: the path does not exist in the commit).
Commits == [ad : Days, cd : Days, fe : Sizes, be : Sizes]

VARIABLES
  commits,          \* the history, oldest commit timestamp first
  file,             \* OUTPUT_FILE: Absent or its text
  pc,               \* position of main()
  force_full,       \* "--full" in sys.argv
  last_collected,   \* None or the first field of the last line
  dates_to_collect, \* the pending days, in order
  i,                \* index of the day being processed
  commit,           \* the commit resolved for that day
  stats,            \* result of collect_stats_for_commit for that day
  buffer,           \* text written to f and not yet flushed
  fileAtStart,      \* history variable: the ledger when the run started
  written,          \* history variable: days whose row this run flushed
  skipped,          \* history variable: days this run skipped
  degraded,         \* history variable: a tool failed during this run
  prev,             \* history variable: how the previous run relates to this
  crashes,          \* interrupted runs so far
  call,             \* history variable: the latest collect_stats_for_commit
  touched,          \* history variable: where this run wrote
  failures,         \* tool failures so far
  cloc_in,          \* SpecOracle: the input of run_cloc
  cloc_out,         \* SpecOracle: its result
  card,             \* SpecConsumers: what get_project_stats ended with
  milestones        \* SpecConsumers: what find_milestones ended with

vars == <<commits, file, pc, force_full, last_collected, dates_to_collect, i,
          commit, stats, buffer, fileAtStart, written, skipped, degraded, prev,
          crashes, call, touched, failures, cloc_in, cloc_out, card,
          milestones>>

\* ------------------------------------------------------- history queries
RECURSIVE SortedSeq_descending(_)
\* mutant: sorted(..., reverse=True)
SortedSeq_descending(S) ==
  IF S = {} THEN <<>>
  ELSE LET m == CHOOSE x \in S : \A y \in S : x >= y
       IN <<m>> \o SortedSeq_descending(S \ {m})

RECURSIVE SortedSeq(_)
\* sorted(set): the elements of a set of days in ascending order
SortedSeq(S) ==
  IF S = {} THEN <<>>
  ELSE LET m == CHOOSE x \in S : \A y \in S : x <= y
       IN <<m>> \o SortedSeq(S \ {m})

\* mutant: every calendar day from the first author day on is listed
get_all_dates_every_day(hist, gitOk) ==
  IF gitOk
  THEN SortedSeq({d \in Days : \E k \in 1..Len(hist) : hist[k].ad <= d})
  ELSE <<>>

\* get_all_dates: the distinct author days of all commits, ascending.  When
\* git fails its output is empty and the list is empty.
get_all_dates(hist, gitOk) ==
  IF gitOk THEN SortedSeq({hist[k].ad : k \in 1..Len(hist)}) ELSE <<>>

\* get_commit_for_date: the first commit git log lists (latest commit
\* timestamp first) among those whose commit day is at most date; 0 when
\* there is none or git fails.  The result is an index into hist.
get_commit_for_date(hist, date, gitOk) ==
  LET upto == {k \in 1..Len(hist) : hist[k].cd <= date}
  IN IF gitOk /\ upto # {}
     THEN CHOOSE k \in upto : \A j \in upto : j <= k
     ELSE NoCommit

\* mutant: the header is counted twice (len(lines) > 2)
get_last_collected_date_two_lines(f) ==
  IF f = Absent THEN NoDate
  ELSE LET lines == readlines(f)
       IN IF Len(lines) > 2
          THEN LET last_line == lines[Len(lines)]
               IN IF Len(last_line) > 0 THEN split(last_line)[1] ELSE NoDate
          ELSE NoDate

\* get_last_collected_date: the first field of the last line when the file
\* has more than one line and that line is not blank
get_last_collected_date(f) ==
  IF f = Absent THEN NoDate
  ELSE LET lines == readlines(f)
       IN IF Len(lines) > 1
          THEN LET last_line == lines[Len(lines)]
               IN IF Len(last_line) > 0 THEN split(last_line)[1] ELSE NoDate
          ELSE NoDate

\* mutant: the filter keeps the last collected day (>= for >)
DateGreater_orEqual(d, field) ==
  IF IsDayTok(field[1]) THEN d >= DayOf(field[1]) ELSE FALSE

\* d > last_collected on the texts: a date is greater than a field exactly
\* when it is greater than the date the field starts with (a field that is
\* a date followed by more text is greater than that date); a date is less
\* than any text starting with a letter.
DateGreater(d, field) ==
  IF IsDayTok(field[1]) THEN d > DayOf(field[1]) ELSE FALSE

\* mutant: every day of the history is pending, whatever the ledger holds
FilterDates_unfiltered(all_dates, last) == all_dates

\* dates_to_collect = [d for d in all_dates if not last_collected or d > last_collected]
FilterDates(all_dates, last) ==
  SelectSeq(all_dates, LAMBDA d : last = NoDate \/ DateGreater(d, last))

\* ------------------------------------------------------------ size oracle
ZeroMetric == [code |-> 0, comment |-> 0, blank |-> 0]

\* what cloc counts in a tree of size s, split over two languages
LangA(s) == [code |-> 2 * s, comment |-> s, blank |-> s]
LangB(s) == [code |-> s, comment |-> 0, blank |-> 1]
Metric(s) == [code |-> LangA(s).code + LangB(s).code,
              comment |-> LangA(s).comment + LangB(s).comment,
              blank |-> LangA(s).blank + LangB(s).blank]

\* what cloc meets: the whole tree ("ok"), a tree of which only the files
\* of the first language were unpacked ("partial"); or cloc cannot be
\* started ("unavailable") or prints nothing ("empty")
ClocOutcomes == {"ok", "partial", "unavailable", "empty"}

ClocLine(n, lang, m) == <<n, Comma, lang, Comma, m.blank, Comma, m.comment, Comma, m.code>>

ClocHeader ==
  <<WordFiles, Comma, WordLanguage, Comma, WordOther, Comma, WordOther,
    Comma, WordOther>>

\* stdout of "cloc <dir> --csv --quiet" for a tree of size s
ClocStdout(s, outcome) ==
  IF outcome = "ok"
  THEN ClocHeader \o <<LF>>
       \o ClocLine(1, WordLanguage, LangA(s)) \o <<LF>>
       \o ClocLine(1, WordLanguage, LangB(s)) \o <<LF>>
       \o ClocLine(2, WordSum, Metric(s)) \o <<LF>>
  ELSE IF outcome = "partial"
  THEN ClocHeader \o <<LF>>
       \o ClocLine(1, WordLanguage, LangA(s)) \o <<LF>>
       \o ClocLine(1, WordSum, LangA(s)) \o <<LF>>
  ELSE <<>>

\* the result of subprocess.run(["cloc", ...]): it raises when cloc cannot
\* be started, else it holds the captured stdout
ClocRun(s, outcome) ==
  [raises |-> outcome = "unavailable", stdout |-> ClocStdout(s, outcome)]

RECURSIVE LStrip(_)
LStrip(txt) ==
  IF Len(txt) > 0 /\ txt[1] \in {CR, LF} THEN LStrip(Tail(txt)) ELSE txt

RECURSIVE RStrip(_)
RStrip(txt) ==
  IF Len(txt) > 0 /\ txt[Len(txt)] \in {CR, LF}
  THEN RStrip(SubSeq(txt, 1, Len(txt) - 1)) ELSE txt

\* str.strip(): leading and trailing line ends removed
strip(txt) == LStrip(RStrip(txt))

RECURSIVE SplitNL(_, _)
\* str.split("\n"): at least one line, "" gives [""]
SplitNL(txt, cur) ==
  IF Len(txt) = 0 THEN <<cur>>
  ELSE IF txt[1] = LF THEN <<cur>> \o SplitNL(Tail(txt), <<>>)
  ELSE SplitNL(Tail(txt), Append(cur, txt[1]))

\* int(p) if p.isdigit() else 0, for a field p
IntOrZero(p) == IF Len(p) = 1 /\ IsDigit(p[1]) THEN p[1] ELSE 0

\* p.isdigit() is True and int(p) raises ValueError
IntRaises(p) == Len(p) = 1 /\ p[1] = WordBadDigit

\* mutant: the loop runs over lines, not reversed(lines), so the first line
\* that qualifies is taken
ScanReversed_first_row(lines, k) ==
  LET rows == {j \in 1..k : /\ Len(lines[j]) > 0
                            /\ lines[j][1] # WordFiles
                            /\ Len(split(lines[j])) >= 5}
  IN IF rows = {} THEN ZeroMetric
     ELSE LET parts == split(lines[CHOOSE j \in rows : \A n \in rows : j <= n])
          IN IF \E j \in 3..5 : IntRaises(parts[j])
             THEN ZeroMetric
             ELSE [blank |-> IntOrZero(parts[3]),
                   comment |-> IntOrZero(parts[4]),
                   code |-> IntOrZero(parts[5])]

RECURSIVE ScanReversed(_, _)
\* the loop over reversed(lines): the metric of the last line that is not
\* empty, does not start with "files" and has at least 5 fields; when int()
\* raises on that line the exception is swallowed and the zero metric is
\* returned
ScanReversed(lines, k) ==
  IF k = 0 THEN ZeroMetric
  ELSE LET line == lines[k]
           parts == split(line)
       IN IF Len(line) > 0 /\ line[1] # WordFiles /\ Len(parts) >= 5
          THEN IF \E j \in 3..5 : IntRaises(parts[j])
               THEN ZeroMetric
               ELSE [blank |-> IntOrZero(parts[3]),
                     comment |-> IntOrZero(parts[4]),
                     code |-> IntOrZero(parts[5])]
          ELSE ScanReversed(lines, k - 1)

\* mutant: the call of cloc is outside the try block; the exception that
\* escapes is shown as a metric of -1
run_cloc_uncaught(exists, proc) ==
  IF ~exists THEN ZeroMetric
  ELSE IF proc.raises THEN [code |-> -1, comment |-> -1, blank |-> -1]
  ELSE LET lines == SplitNL(strip(proc.stdout), <<>>)
       IN ScanReversed(lines, Len(lines))

\* run_cloc: the zero metric for a missing directory, for an exception of
\* the tool invocation and when no line qualifies
run_cloc(exists, proc) ==
  IF ~exists \/ proc.raises THEN ZeroMetric
  ELSE LET lines == SplitNL(strip(proc.stdout), <<>>)
       IN ScanReversed(lines, Len(lines))

\* count_lines_simple: the lines that are not blank in the source files of
\* a directory, 0 when the directory does not exist
count_lines_simple(exists, s) ==
  IF ~exists THEN 0 ELSE Metric(s).code + Metric(s).comment

\* -------------------------------------------------------------- extractor
\* what happens to one "extract and measure" block when the path exists at
\* the commit: all tools work; git archive fails; mkdir of the subdirectory
\* (or the start of a tool) raises; tar fails and leaves nothing; tar fails
\* after unpacking part of the tree; or the extraction works and cloc cannot
\* be started or prints nothing
SubtreeOutcomes ==
  {"ok", "archive_failed", "mkdir_error", "tar_failed", "tar_partial",
   "cloc_unavailable", "cloc_empty"}

ClocOutcome(o) ==
  IF o = "cloc_unavailable" THEN "unavailable"
  ELSE IF o = "cloc_empty" THEN "empty"
  ELSE IF o = "tar_partial" THEN "partial" ELSE "ok"

AllOk == [mkdtemp |-> TRUE, fe |-> "ok", be |-> "ok", rmtree |-> TRUE]

\* the outcomes of the tools during one call of collect_stats_for_commit;
\* when mkdtemp raises nothing else runs
Envs ==
  [mkdtemp : {TRUE}, fe : SubtreeOutcomes, be : SubtreeOutcomes,
   rmtree : BOOLEAN]
  \cup {[mkdtemp |-> FALSE, fe |-> "ok", be |-> "ok", rmtree |-> TRUE]}

\* mutant: the result of git archive is not looked at, so a path that does
\* not exist at the commit is measured as an empty directory
SubtreeStats_unchecked(s, o) ==
  IF o # "archive_failed"
  THEN IF o # "tar_failed"
       THEN run_cloc(TRUE, ClocRun(s, ClocOutcome(o))) ELSE ZeroMetric
  ELSE ZeroMetric

\* one "extract and measure" block: git archive of the path gives a
\* non-empty tar only when the path exists at the commit (size s > 0); the
\* metric stays zero unless the unpacked directory exists
SubtreeStats(s, o) ==
  IF s > 0 /\ o # "archive_failed"
  THEN IF o # "tar_failed"
       THEN run_cloc(TRUE, ClocRun(s, ClocOutcome(o))) ELSE ZeroMetric
  ELSE ZeroMetric

\* the block raises (mkdir of the subdirectory fails)
SubtreeRaises(s, o) == s > 0 /\ o = "mkdir_error"

\* env names each thing that happens during a call once: a block that is
\* not reached, or whose path does not exist at the commit, has no outcome
\* of its own and is given "ok"
Applies(c, env) ==
  /\ c.fe = 0 => env.fe = "ok"
  /\ (c.be = 0 \/ SubtreeRaises(c.fe, env.fe)) => env.be = "ok"

\* the number of things that fail during a call
FailuresIn(env) ==
  (IF env.mkdtemp THEN 0 ELSE 1) + (IF env.fe = "ok" THEN 0 ELSE 1)
  + (IF env.be = "ok" THEN 0 ELSE 1) + (IF env.rmtree THEN 0 ELSE 1)

\* mutant: total_code leaves the backend out
collect_stats_frontend_total(c, env) ==
  IF ~env.mkdtemp \/ SubtreeRaises(c.fe, env.fe) \/ SubtreeRaises(c.be, env.be)
  THEN NoStats
  ELSE LET frontend_stats == SubtreeStats(c.fe, env.fe)
           backend_stats == SubtreeStats(c.be, env.be)
       IN << [frontend |-> frontend_stats,
              backend |-> backend_stats,
              total_code |-> frontend_stats.code] >>

\* collect_stats_for_commit: None on an exception, else both metrics and
\* their code sum
collect_stats_for_commit(c, env) ==
  IF ~env.mkdtemp \/ SubtreeRaises(c.fe, env.fe) \/ SubtreeRaises(c.be, env.be)
  THEN NoStats
  ELSE LET frontend_stats == SubtreeStats(c.fe, env.fe)
           backend_stats == SubtreeStats(c.be, env.be)
       IN << [frontend |-> frontend_stats,
              backend |-> backend_stats,
              total_code |-> frontend_stats.code + backend_stats.code] >>

\* what the call returns for each commit under each outcome of the tools,
\* as an explicit table (@@ gives a function that is computed once)
CollectResults ==
  [c \in Commits |->
     ([env \in Envs |-> collect_stats_for_commit(c, env)] @@ <<>>)] @@ <<>>

\* paths: the ledger lives in the project directory, next to the script;
\* the snapshot of a commit is unpacked under a fresh temporary directory
OUTPUT_FILE == <<"project", "scripts", "line_count", "loc_history.csv">>
TempDir == <<"tmp">>

\* mutant: the snapshot is unpacked in the project directory
SubtreeDir_in_project(name) == <<"project", name>>

\* temp_dir / "frontend", temp_dir / "backend"
SubtreeDir(name) == TempDir \o <<name>>

\* where a path lies
Location(p) ==
  IF p = OUTPUT_FILE THEN "ledger"
  ELSE IF p[1] = "project" THEN "worktree" ELSE "tmp"

\* the block gets as far as mkdir and tar
SubtreeUnpacks(s, o) == s > 0 /\ o \notin {"archive_failed", "mkdir_error"}

\* the directories one call creates: the temporary directory, and the
\* directory of a subtree when its block is reached and its archive is
\* not empty
CreatedDirs(c, env) ==
  IF ~env.mkdtemp THEN {}
  ELSE {TempDir}
       \cup (IF SubtreeUnpacks(c.fe, env.fe)
             THEN {SubtreeDir("frontend")} ELSE {})
       \cup (IF ~SubtreeRaises(c.fe, env.fe) /\ SubtreeUnpacks(c.be, env.be)
             THEN {SubtreeDir("backend")} ELSE {})

\* mutant: the removal is the last statement of the try body instead of a
\* finally block
LeftDirs_no_finally(c, env) ==
  IF env.rmtree /\ collect_stats_for_commit(c, env) # NoStats
  THEN {} ELSE CreatedDirs(c, env)

\* the directories that exist when the call returns: the finally block
\* removes the tree unless rmtree fails (ignore_errors=True)
LeftDirs(c, env) ==
  IF env.rmtree THEN {} ELSE CreatedDirs(c, env)

\* what became of one block, as the caller could tell from the tools
SubtreeClass(s, o) ==
  IF s = 0 THEN "absent"
  ELSE IF o = "ok" THEN "ok"
  ELSE IF o = "mkdir_error" THEN "raised"
  ELSE IF o \in {"cloc_unavailable", "cloc_empty"} THEN "oracle_failed"
  ELSE IF o \in {"tar_failed", "tar_partial"} THEN "unpack_failed"
  ELSE "extract_failed"

NoCall == [fe |-> "none", be |-> "none", left |-> {}, rm_failed |-> FALSE]

\* the record of one call: what became of each block, what is left of the
\* temporary directory, and whether rmtree failed
CallOf(c, env) ==
  [fe |-> IF env.mkdtemp THEN SubtreeClass(c.fe, env.fe) ELSE "not_run",
   be |-> IF env.mkdtemp /\ ~SubtreeRaises(c.fe, env.fe)
          THEN SubtreeClass(c.be, env.be) ELSE "not_run",
   left |-> LeftDirs(c, env),
   rm_failed |-> (env.mkdtemp /\ ~env.rmtree)]

\* mutant: the comment count is written before the code count
RowFields_comment_first(date, st) ==
  <<DayTok(date),
    st.frontend.comment, st.frontend.code, st.frontend.blank,
    st.backend.comment, st.backend.code, st.backend.blank,
    st.total_code>>

\* the fields main() passes to writer.writerow for a day
RowFields(date, st) ==
  <<DayTok(date),
    st.frontend.code, st.frontend.comment, st.frontend.blank,
    st.backend.code, st.backend.comment, st.backend.blank,
    st.total_code>>

\* ------------------------------------------------------------------ driver
\* prev tells how the run before the current one ended:
\*   "none"       there was none, it ended by an exception, or commits were
\*                added after it completed
\*   "completed"  it completed, and the history is as it was then
\*   "clean"      as "completed", and it started from an empty ledger and
\*                no tool failed during it
\*   "crashed"    it was interrupted

\* no history, no ledger, no process
InitProgram ==
  /\ commits = <<>>
  /\ file = Absent
  /\ pc = "idle"
  /\ force_full = FALSE
  /\ last_collected = NoDate
  /\ dates_to_collect = <<>>
  /\ i = 1
  /\ commit = NoCommit
  /\ stats = NoStats
  /\ buffer = <<>>
  /\ fileAtStart = Absent
  /\ written = <<>>
  /\ skipped = {}
  /\ degraded = FALSE
  /\ prev = "none"
  /\ crashes = 0
  /\ call = NoCall
  /\ touched = {}
  /\ failures = 0
  /\ card = NoCard
  /\ milestones = NoMilestones

Init ==
  /\ InitProgram
  /\ cloc_in = <<>>
  /\ cloc_out = <<>>

\* this run started from an empty ledger
Scratch == force_full \/ fileAtStart = Absent

\* a commit is made (or fetched) between two runs: its commit timestamp is
\* not before the existing ones, its author day is any day up to then
AddCommit(c) ==
  /\ pc = "idle"
  /\ Len(commits) < MaxCommits
  /\ c.ad <= c.cd
  /\ Len(commits) > 0 => commits[Len(commits)].cd <= c.cd
  /\ commits' = Append(commits, c)
  /\ prev' = IF prev = "crashed" THEN prev ELSE "none"
  /\ UNCHANGED <<file, pc, force_full, last_collected, dates_to_collect, i,
                 commit, stats, buffer, fileAtStart, written, skipped,
                 degraded, crashes, call, touched, failures, cloc_in, cloc_out,
                 card, milestones>>

\* main() up to the resume decision: force_full and last_collected
StartRun(full) ==
  /\ pc = "idle"
  /\ force_full' = full
  /\ last_collected' = IF full THEN NoDate ELSE get_last_collected_date(file)
  /\ fileAtStart' = file
  /\ pc' = "init"
  /\ UNCHANGED <<commits, file, dates_to_collect, i, commit, stats, buffer,
                 written, skipped, degraded, prev, crashes, call, touched,
                 failures, cloc_in, cloc_out,
                 card, milestones>>

\* mutant: the file is opened with "a" for the header, so what an existing
\* file holds stays in front of the new header
InitFile_append_mode ==
  /\ pc = "init"
  /\ IF file = Absent \/ force_full
     THEN /\ file' = IF file = Absent THEN <<>> ELSE file
          /\ buffer' = writerow(HeaderFields)
          /\ touched' = touched \cup {Location(OUTPUT_FILE)}
          /\ pc' = "header"
     ELSE /\ pc' = "enum"
          /\ UNCHANGED <<file, buffer, touched>>
  /\ UNCHANGED <<commits, force_full, last_collected, dates_to_collect, i,
                 commit, stats, fileAtStart, written, skipped, degraded,
                 prev, crashes, call, failures, cloc_in, cloc_out,
                 card, milestones>>

\* mutant: --full does not recreate an existing file
InitFile_keeps_file ==
  /\ pc = "init"
  /\ IF file = Absent
     THEN /\ file' = <<>>
          /\ buffer' = writerow(HeaderFields)
          /\ touched' = touched \cup {Location(OUTPUT_FILE)}
          /\ pc' = "header"
     ELSE /\ pc' = "enum"
          /\ UNCHANGED <<file, buffer, touched>>
  /\ UNCHANGED <<commits, force_full, last_collected, dates_to_collect, i,
                 commit, stats, fileAtStart, written, skipped, degraded,
                 prev, crashes, call, failures, cloc_in, cloc_out,
                 card, milestones>>

\* mutant: the file is recreated by every run
InitFile_every_run ==
  /\ pc = "init"
  /\ file' = <<>>
  /\ buffer' = writerow(HeaderFields)
  /\ touched' = touched \cup {Location(OUTPUT_FILE)}
  /\ pc' = "header"
  /\ UNCHANGED <<commits, force_full, last_collected, dates_to_collect, i,
                 commit, stats, fileAtStart, written, skipped, degraded,
                 prev, crashes, call, failures, cloc_in, cloc_out,
                 card, milestones>>

\* "if not OUTPUT_FILE.exists() or force_full": open(OUTPUT_FILE, "w")
\* creates or truncates the file, and the header goes to the buffer
InitFile ==
  /\ pc = "init"
  /\ IF file = Absent \/ force_full
     THEN /\ file' = <<>>
          /\ buffer' = writerow(HeaderFields)
          /\ touched' = touched \cup {Location(OUTPUT_FILE)}
          /\ pc' = "header"
     ELSE /\ pc' = "enum"
          /\ UNCHANGED <<file, buffer, touched>>
  /\ UNCHANGED <<commits, force_full, last_collected, dates_to_collect, i,
                 commit, stats, fileAtStart, written, skipped, degraded,
                 prev, crashes, call, failures, cloc_in, cloc_out,
                 card, milestones>>

\* leaving the with block closes the file, which flushes the header
CloseHeader ==
  /\ pc = "header"
  /\ file' = file \o buffer
  /\ buffer' = <<>>
  /\ last_collected' = NoDate
  /\ pc' = "enum"
  /\ UNCHANGED <<commits, force_full, dates_to_collect, i, commit, stats,
                 fileAtStart, written, skipped, degraded, prev, crashes,
                 call, touched, failures, cloc_in, cloc_out,
                 card, milestones>>

\* mutant: an empty list of days is not told from a failure of git, and
\* the run goes on into the loop
Enumerate_no_early_return(gitOk) ==
  /\ pc = "enum"
  /\ LET all_dates == get_all_dates(commits, gitOk)
         pending == FilterDates(all_dates, last_collected)
     IN /\ dates_to_collect' = pending
        /\ pc' = "resolve"
  /\ i' = 1
  /\ degraded' = (degraded \/ ~gitOk)
  /\ gitOk \/ failures < MaxFailures
  /\ failures' = IF gitOk THEN failures ELSE failures + 1
  /\ UNCHANGED <<commits, file, force_full, last_collected, commit, stats,
                 buffer, fileAtStart, written, skipped, prev, crashes, call,
                 touched, cloc_in, cloc_out,
                 card, milestones>>

\* get_all_dates, the filter, and the early return when nothing is pending;
\* gitOk tells whether git log exits with status 0
Enumerate(gitOk) ==
  /\ pc = "enum"
  /\ LET all_dates == get_all_dates(commits, gitOk)
         pending == FilterDates(all_dates, last_collected)
     IN /\ dates_to_collect' = pending
        /\ pc' = IF Len(pending) = 0 THEN "done" ELSE "resolve"
  /\ i' = 1
  /\ degraded' = (degraded \/ ~gitOk)
  /\ gitOk \/ failures < MaxFailures
  /\ failures' = IF gitOk THEN failures ELSE failures + 1
  /\ UNCHANGED <<commits, file, force_full, last_collected, commit, stats,
                 buffer, fileAtStart, written, skipped, prev, crashes, call,
                 touched, cloc_in, cloc_out,
                 card, milestones>>

\* git cannot be started: subprocess.run raises in run_git, nothing in
\* main() catches it and the interpreter exits with a traceback
GitMissing ==
  /\ pc = "enum"
  /\ pc' = "aborted"
  /\ degraded' = TRUE
  /\ failures < MaxFailures
  /\ failures' = failures + 1
  /\ UNCHANGED <<commits, file, force_full, last_collected, dates_to_collect,
                 i, commit, stats, buffer, fileAtStart, written, skipped,
                 prev, crashes, call, touched, cloc_in, cloc_out,
                 card, milestones>>

\* mutant: the oldest commit up to the day is taken
Resolve_oldest(gitOk) ==
  /\ pc = "resolve"
  /\ i <= Len(dates_to_collect)
  /\ LET c == IF get_commit_for_date(commits, dates_to_collect[i], gitOk)
                 = NoCommit
              THEN NoCommit ELSE 1
     IN /\ commit' = c
        /\ IF c = NoCommit
           THEN /\ i' = i + 1
                /\ skipped' = skipped \cup {dates_to_collect[i]}
                /\ pc' = "resolve"
           ELSE /\ pc' = "collect"
                /\ UNCHANGED <<i, skipped>>
  /\ degraded' = (degraded \/ ~gitOk)
  /\ gitOk \/ failures < MaxFailures
  /\ failures' = IF gitOk THEN failures ELSE failures + 1
  /\ call' = NoCall
  /\ UNCHANGED <<commits, file, force_full, last_collected, dates_to_collect,
                 stats, buffer, fileAtStart, written, prev, crashes, touched,
                 cloc_in, cloc_out,
                 card, milestones>>

\* one iteration starts: get_commit_for_date; "continue" when it is None
Resolve(gitOk) ==
  /\ pc = "resolve"
  /\ i <= Len(dates_to_collect)
  /\ LET c == get_commit_for_date(commits, dates_to_collect[i], gitOk)
     IN /\ commit' = c
        /\ IF c = NoCommit
           THEN /\ i' = i + 1
                /\ skipped' = skipped \cup {dates_to_collect[i]}
                /\ pc' = "resolve"
           ELSE /\ pc' = "collect"
                /\ UNCHANGED <<i, skipped>>
  /\ degraded' = (degraded \/ ~gitOk)
  /\ gitOk \/ failures < MaxFailures
  /\ failures' = IF gitOk THEN failures ELSE failures + 1
  /\ call' = NoCall
  /\ UNCHANGED <<commits, file, force_full, last_collected, dates_to_collect,
                 stats, buffer, fileAtStart, written, prev, crashes, touched,
                 cloc_in, cloc_out,
                 card, milestones>>

\* collect_stats_for_commit; "continue" when it is None.  call keeps what
\* happened during the call until the next step of the loop.
Collect(env) ==
  /\ pc = "collect"
  /\ Applies(commits[commit], env)
  /\ failures + FailuresIn(env) <= MaxFailures
  /\ failures' = failures + FailuresIn(env)
  /\ LET st == CollectResults[commits[commit]][env]
     IN /\ stats' = st
        /\ IF st = NoStats
           THEN /\ i' = i + 1
                /\ skipped' = skipped \cup {dates_to_collect[i]}
                /\ pc' = "resolve"
           ELSE /\ pc' = "write"
                /\ UNCHANGED <<i, skipped>>
  /\ degraded' = (degraded \/ [env EXCEPT !.rmtree = TRUE] # AllOk)
  /\ call' = CallOf(commits[commit], env)
  /\ touched' = touched
                \cup {Location(p) : p \in CreatedDirs(commits[commit], env)}
  /\ UNCHANGED <<commits, file, force_full, last_collected, dates_to_collect,
                 commit, buffer, fileAtStart, written, prev, crashes,
                 cloc_in, cloc_out,
                 card, milestones>>

\* writer.writerow of the day's row: the row text goes to the buffer
WriteRow ==
  /\ pc = "write"
  /\ buffer' = buffer \o writerow(RowFields(dates_to_collect[i], stats[1]))
  /\ pc' = "flush"
  /\ call' = NoCall
  /\ UNCHANGED <<commits, file, force_full, last_collected, dates_to_collect,
                 i, commit, stats, fileAtStart, written, skipped, degraded,
                 prev, crashes, touched, failures, cloc_in, cloc_out,
                 card, milestones>>

\* mutant: the file was opened with "w" instead of "a", so the first flush
\* of the loop replaces the content
Flush_overwrite ==
  /\ pc = "flush"
  /\ file' = IF written = <<>> THEN buffer ELSE file \o buffer
  /\ buffer' = <<>>
  /\ written' = Append(written, dates_to_collect[i])
  /\ i' = i + 1
  /\ pc' = "resolve"
  /\ touched' = touched \cup {Location(OUTPUT_FILE)}
  /\ UNCHANGED <<commits, force_full, last_collected, dates_to_collect,
                 commit, stats, fileAtStart, skipped, degraded, prev, crashes,
                 call, failures, cloc_in, cloc_out,
                 card, milestones>>

\* mutant: no f.flush() in the loop, the rows stay in the buffer
Flush_buffered ==
  /\ pc = "flush"
  /\ written' = Append(written, dates_to_collect[i])
  /\ i' = i + 1
  /\ pc' = "resolve"
  /\ UNCHANGED <<commits, file, force_full, last_collected, dates_to_collect,
                 commit, stats, buffer, fileAtStart, skipped, degraded, prev,
                 crashes, call, touched, failures, cloc_in, cloc_out,
                 card, milestones>>

\* f.flush(): the buffer is appended to the file; next iteration
Flush ==
  /\ pc = "flush"
  /\ file' = file \o buffer
  /\ buffer' = <<>>
  /\ written' = Append(written, dates_to_collect[i])
  /\ i' = i + 1
  /\ pc' = "resolve"
  /\ touched' = touched \cup {Location(OUTPUT_FILE)}
  /\ UNCHANGED <<commits, force_full, last_collected, dates_to_collect,
                 commit, stats, fileAtStart, skipped, degraded, prev, crashes,
                 call, failures, cloc_in, cloc_out,
                 card, milestones>>

\* mutant: the loop leaves the last pending day out
LoopEnd_one_short ==
  /\ pc = "resolve"
  /\ i >= Len(dates_to_collect)
  /\ pc' = "done"
  /\ call' = NoCall
  /\ UNCHANGED <<commits, file, force_full, last_collected, dates_to_collect,
                 i, commit, stats, buffer, fileAtStart, written, skipped,
                 degraded, prev, crashes, touched, failures, cloc_in, cloc_out,
                 card, milestones>>

\* the loop is exhausted: the with block closes the file
LoopEnd ==
  /\ pc = "resolve"
  /\ i > Len(dates_to_collect)
  /\ pc' = "done"
  /\ call' = NoCall
  /\ UNCHANGED <<commits, file, force_full, last_collected, dates_to_collect,
                 i, commit, stats, buffer, fileAtStart, written, skipped,
                 degraded, prev, crashes, touched, failures, cloc_in, cloc_out,
                 card, milestones>>

\* the values a process starts with
FreshProcess ==
  /\ force_full' = FALSE
  /\ last_collected' = NoDate
  /\ dates_to_collect' = <<>>
  /\ i' = 1
  /\ commit' = NoCommit
  /\ stats' = NoStats
  /\ buffer' = <<>>
  /\ fileAtStart' = Absent
  /\ written' = <<>>
  /\ skipped' = {}
  /\ degraded' = FALSE
  /\ call' = NoCall
  /\ touched' = {}

\* the exit status of the process: main() has no sys.exit, so it is 0
\* when main() returns and 1 when an exception reaches the top level
ExitCode == IF pc = "aborted" THEN 1 ELSE 0

\* the run printed that the data is up to date and returned early
SaidUpToDate == pc = "done" /\ dates_to_collect = <<>>

\* main() returns, or the traceback is printed, and the process exits
Finish ==
  /\ pc \in {"done", "aborted"}
  /\ pc' = "idle"
  /\ prev' = IF pc = "aborted" THEN "none"
             ELSE IF Scratch /\ ~degraded THEN "clean" ELSE "completed"
  /\ FreshProcess
  /\ UNCHANGED <<commits, file, crashes, failures, cloc_in, cloc_out,
                 card, milestones>>

\* the process is killed between two statements: what is in the buffer is
\* lost, the file stays as it is
Kill ==
  /\ pc \notin {"idle", "done", "aborted", "crashed"}
  /\ crashes < MaxCrashes
  /\ crashes' = crashes + 1
  /\ buffer' = <<>>
  /\ pc' = "crashed"
  /\ UNCHANGED <<commits, file, force_full, last_collected, dates_to_collect,
                 i, commit, stats, fileAtStart, written, skipped, degraded,
                 prev, call, touched, failures, cloc_in, cloc_out,
                 card, milestones>>

\* a flush ends early (the raw write is short and the process dies or the
\* next write raises, e.g. on a full disk): the first k tokens of the
\* buffer reach the file
TornFlush(k) ==
  /\ pc \in {"header", "flush"}
  /\ crashes < MaxCrashes
  /\ k < Len(buffer)
  /\ file' = file \o SubSeq(buffer, 1, k)
  /\ crashes' = crashes + 1
  /\ buffer' = <<>>
  /\ pc' = "crashed"
  /\ UNCHANGED <<commits, force_full, last_collected, dates_to_collect,
                 i, commit, stats, fileAtStart, written, skipped, degraded,
                 prev, call, touched, failures, cloc_in, cloc_out,
                 card, milestones>>

\* writer.writerow or f.flush() raises OSError before a byte reaches the
\* file (the disk is full, the device fails): the loop has no try, so the
\* exception leaves main() and the interpreter exits with a traceback; what
\* the buffer holds is lost
FlushRaises ==
  /\ pc = "flush"
  /\ crashes < MaxCrashes
  /\ crashes' = crashes + 1
  /\ buffer' = <<>>
  /\ pc' = "aborted"
  /\ degraded' = TRUE
  /\ UNCHANGED <<commits, file, force_full, last_collected, dates_to_collect,
                 i, commit, stats, fileAtStart, written, skipped, prev, call,
                 touched, failures, cloc_in, cloc_out,
                 card, milestones>>

\* the interrupted process is gone
Gone ==
  /\ pc = "crashed"
  /\ pc' = "idle"
  /\ prev' = "crashed"
  /\ FreshProcess
  /\ UNCHANGED <<commits, file, crashes, failures, cloc_in, cloc_out,
                 card, milestones>>

RowLen == Len(writerow(HeaderFields))

\* where a write of a row or of the header is cut: after the first field,
\* after its comma, before the line end, and between CR and LF
TornCuts == {1, 2, RowLen - 2, RowLen - 1}

Next ==
  \/ \E c \in Commits : AddCommit(c)
  \/ \E full \in BOOLEAN : StartRun(full)
  \/ InitFile
  \/ CloseHeader
  \/ \E gitOk \in BOOLEAN : Enumerate(gitOk)
  \/ GitMissing
  \/ \E gitOk \in BOOLEAN : Resolve(gitOk)
  \/ \E env \in Envs : Collect(env)
  \/ WriteRow
  \/ Flush
  \/ LoopEnd
  \/ Finish

NextCrash ==
  \/ Next
  \/ Kill
  \/ \E k \in TornCuts : TornFlush(k)
  \/ FlushRaises
  \/ Gone

\* runs that are never interrupted
Spec == Init /\ [][Next]_vars

\* runs that may be interrupted
SpecCrash == Init /\ [][NextCrash]_vars

\* a statement of main(): each is a blocking call that returns
RunStep ==
  \/ InitFile
  \/ CloseHeader
  \/ \E gitOk \in BOOLEAN : Enumerate(gitOk)
  \/ GitMissing
  \/ \E gitOk \in BOOLEAN : Resolve(gitOk)
  \/ \E env \in Envs : Collect(env)
  \/ WriteRow
  \/ Flush
  \/ LoopEnd

\* uninterrupted runs in which every call made by main() returns, so that a
\* started process goes on to its next statement
SpecLive == Init /\ [][Next]_vars /\ WF_vars(RunStep)

\* --------------------------------------------------- the oracle on its own
\* lines cloc may print besides the header: a language row, the SUM row, a
\* row of 3 fields, a row whose blank and code counts are not numbers, a row
\* with a count that int() rejects, and a line of other text
ClocLangRow == ClocLine(1, WordLanguage, LangA(1))
ClocSumRow == ClocLine(2, WordSum, Metric(1))
ClocShortRow == <<1, Comma, WordLanguage, Comma, 2>>
ClocTextRow == <<1, Comma, WordSum, Comma, WordOther, Comma, 1, Comma, WordOther>>
ClocBadRow == <<1, Comma, WordSum, Comma, 2, Comma, WordBadDigit, Comma, 3>>
ClocNote == <<WordOther>>

ClocLines ==
  {ClocHeader, ClocLangRow, ClocSumRow, ClocShortRow, ClocTextRow,
   ClocBadRow, ClocNote, <<>>}

RECURSIVE JoinLines(_)
\* the text of a sequence of lines, each ended by LF
JoinLines(lines) ==
  IF Len(lines) = 0 THEN <<>>
  ELSE lines[1] \o <<LF>> \o JoinLines(Tail(lines))

\* what subprocess.run may give run_cloc: an exception, or any stdout of
\* at most MaxClocLines such lines
ClocRuns ==
  {[raises |-> TRUE, stdout |-> <<>>]}
  \cup {[raises |-> FALSE, stdout |-> JoinLines(ls)] :
          ls \in UNION {[1..n -> ClocLines] : n \in 0..MaxClocLines}}

\* run_cloc is about to be called on a directory that exists or not
InitOracle ==
  /\ InitProgram
  /\ cloc_in \in {<<[exists |-> e, proc |-> p]>> :
                    e \in BOOLEAN, p \in ClocRuns}
  /\ cloc_out = <<>>

\* the call of run_cloc returns
RunCloc ==
  /\ cloc_in # <<>>
  /\ cloc_out = <<>>
  /\ cloc_out' = <<run_cloc(cloc_in[1].exists, cloc_in[1].proc)>>
  /\ UNCHANGED <<commits, file, pc, force_full, last_collected,
                 dates_to_collect, i, commit, stats, buffer, fileAtStart,
                 written, skipped, degraded, prev, crashes, call, touched,
                 failures, cloc_in,
                 card, milestones>>

NextOracle == RunCloc

\* run_cloc applied to every input of ClocRuns
SpecOracle == InitOracle /\ [][NextOracle]_vars

\* ------------------------------------------------ consumers of the ledger
\* int(p) for a field p of a ledger line: it raises unless p is a number
IsIntText(p) == Len(p) = 1 /\ IsDigit(p[1])

\* the part of get_project_stats that reads loc_history.csv: the three keys
\* are set from fields 2, 5 and 8 of the last line when the file has more
\* than one line, and to 0 when the file does not exist; with a file of at
\* most one line nothing sets them (loc is <<>>).  int() or the indexing
\* raises on a last line that is not a row.
LocKeys(f) ==
  IF f = Absent THEN [raised |-> FALSE, loc |-> <<0, 0, 0>>]
  ELSE LET lines == readlines(f)
       IN IF Len(lines) > 1
          THEN LET last_line == split(strip(lines[Len(lines)]))
               IN IF /\ Len(last_line) >= 8
                     /\ \A k \in {2, 5, 8} : IsIntText(last_line[k])
                  THEN [raised |-> FALSE,
                        loc |-> <<last_line[2][1], last_line[5][1],
                                  last_line[8][1]>>]
                  ELSE [raised |-> TRUE, loc |-> <<>>]
          ELSE [raised |-> FALSE, loc |-> <<>>]

\* get_project_stats, for a ledger f and a project that is days old: the
\* keys read from the ledger and daily_loc; stats["total_loc"] raises
\* KeyError when the key was not set
get_project_stats(f, days) ==
  LET keys == LocKeys(f)
  IN IF keys.raised THEN [raised |-> TRUE, loc |-> <<>>, daily_loc |-> <<>>]
     ELSE IF days > 0
     THEN IF keys.loc = <<>>
          THEN [raised |-> TRUE, loc |-> <<>>, daily_loc |-> <<>>]
          ELSE [raised |-> FALSE, loc |-> keys.loc,
                daily_loc |-> <<keys.loc[3] \div days>>]
     ELSE [raised |-> FALSE, loc |-> keys.loc, daily_loc |-> <<0>>]

\* project_neofetch.py runs while the collector does not: days is 0 when
\* git log prints no first commit
GetProjectStats(days) ==
  /\ pc = "idle"
  /\ commits = <<>> => days = 0
  /\ card' = <<get_project_stats(file, days)>>
  /\ pc' = "reading"
  /\ UNCHANGED <<commits, file, force_full, last_collected, dates_to_collect,
                 i, commit, stats, buffer, fileAtStart, written, skipped,
                 degraded, prev, crashes, call, touched, failures, cloc_in,
                 cloc_out, milestones>>

\* the consumer process ends
ConsumerExit ==
  /\ pc = "reading"
  /\ pc' = "idle"
  /\ card' = NoCard
  /\ milestones' = NoMilestones
  /\ UNCHANGED <<commits, file, force_full, last_collected, dates_to_collect,
                 i, commit, stats, buffer, fileAtStart, written, skipped,
                 degraded, prev, crashes, call, touched, failures, cloc_in,
                 cloc_out>>

\* get_loc_history from line k of the file on: a line of at least 8 fields
\* gives (date, total) with the first field as text and int() of the 8th,
\* any other line is passed over
RECURSIVE LocHistoryFrom(_, _, _)
LocHistoryFrom(lines, k, history) ==
  IF k > Len(lines) THEN [raised |-> FALSE, history |-> history]
  ELSE LET parts == split(strip(lines[k]))
       IN IF Len(parts) >= 8
          THEN IF IsIntText(parts[8])
               THEN LocHistoryFrom(lines, k + 1,
                      Append(history, [date |-> parts[1],
                                       total |-> parts[8][1]]))
               ELSE [raised |-> TRUE, history |-> <<>>]
          ELSE LocHistoryFrom(lines, k + 1, history)

\* get_loc_history: no file gives no history; next(f) skips the first line
\* and raises StopIteration on a file with no line
get_loc_history(f) ==
  IF f = Absent THEN [raised |-> FALSE, history |-> <<>>]
  ELSE LET lines == readlines(f)
       IN IF lines = <<>> THEN [raised |-> TRUE, history |-> <<>>]
          ELSE LocHistoryFrom(lines, 2, <<>>)

\* the thresholds of find_milestones, increasing as in the source, in the
\* unit of the model's sizes: the totals of the model's rows are below 8
loc_milestones == <<2, 4, 6, 8>>

\* the last row that reaches the threshold, 0 if there is none
RECURSIVE FirstReaching_last(_, _, _)
FirstReaching_last(history, threshold, k) ==
  IF k > Len(history) THEN 0
  ELSE LET later == FirstReaching_last(history, threshold, k + 1)
       IN IF later # 0 THEN later
          ELSE IF history[k].total >= threshold THEN k ELSE 0

\* the inner loop of find_milestones from row k on: the index of the row
\* at which it breaks, 0 if it runs to the end
RECURSIVE FirstReaching(_, _, _)
FirstReaching(history, threshold, k) ==
  IF k > Len(history) THEN 0
  ELSE IF history[k].total >= threshold THEN k
  ELSE FirstReaching(history, threshold, k + 1)

\* the outer loop of find_milestones from threshold t on: one Milestone of
\* category "code" for each threshold at which the inner loop breaks
RECURSIVE CodeMilestones(_, _, _)
CodeMilestones(history, t, found) ==
  IF t > Len(loc_milestones) THEN found
  ELSE LET hit == FirstReaching(history, loc_milestones[t], 1)
       IN CodeMilestones(history, t + 1,
            IF hit = 0 THEN found
            ELSE Append(found, [threshold |-> loc_milestones[t],
                                date |-> history[hit].date,
                                category |-> "code"]))

\* a < b for two texts, as Python compares strings
RECURSIVE TextLess(_, _)
TextLess(a, b) ==
  IF b = <<>> THEN FALSE
  ELSE IF a = <<>> THEN TRUE
  ELSE IF a[1] # b[1] THEN a[1] < b[1]
  ELSE TextLess(Tail(a), Tail(b))

\* list.sort(key=lambda m: m.date) is stable: m goes after every element
\* whose date is not later than its own
RECURSIVE InsertByDate(_, _)
InsertByDate(sorted, m) ==
  IF sorted = <<>> THEN <<m>>
  ELSE IF TextLess(m.date, sorted[Len(sorted)].date)
       THEN Append(InsertByDate(SubSeq(sorted, 1, Len(sorted) - 1), m),
                   sorted[Len(sorted)])
       ELSE Append(sorted, m)

RECURSIVE SortByDate(_)
SortByDate(ms) ==
  IF ms = <<>> THEN <<>>
  ELSE InsertByDate(SortByDate(SubSeq(ms, 1, Len(ms) - 1)), ms[Len(ms)])

\* find_milestones, its milestones of category "code": the commit and time
\* milestones come from git and the sort, being stable, keeps the code
\* milestones in the order it gives them alone
find_milestones(f) ==
  LET loc_history == get_loc_history(f)
  IN IF loc_history.raised THEN [raised |-> TRUE, milestones |-> <<>>]
     ELSE [raised |-> FALSE,
           milestones |->
             SortByDate(CodeMilestones(loc_history.history, 1, <<>>))]

\* milestones.py runs while the collector does not
FindMilestones ==
  /\ pc = "idle"
  /\ milestones' = <<find_milestones(file)>>
  /\ pc' = "reading"
  /\ UNCHANGED <<commits, file, force_full, last_collected, dates_to_collect,
                 i, commit, stats, buffer, fileAtStart, written, skipped,
                 degraded, prev, crashes, call, touched, failures, cloc_in,
                 cloc_out, card>>

NextConsumers ==
  \/ Next
  \/ \E days \in 0..MaxAge : GetProjectStats(days)
  \/ FindMilestones
  \/ ConsumerExit

\* uninterrupted runs of the collector, between which the scripts that
\* read the ledger run
SpecConsumers == Init /\ [][NextConsumers]_vars

\* ------------------------------------------------------- reading a ledger
\* a line of 8 fields: a date and 7 integers
IsRowLine(line) ==
  LET parts == split(line)
  IN /\ Len(parts) = 8
     /\ \A k \in 1..8 : Len(parts[k]) = 1
     /\ IsDayTok(parts[1][1])
     /\ \A k \in 2..8 : IsDigit(parts[k][1])

RECURSIVE Serialize(_)
\* the text of a sequence of lines, each ended by CRLF
Serialize(lines) ==
  IF Len(lines) = 0 THEN <<>>
  ELSE lines[1] \o <<CR, LF>> \o Serialize(Tail(lines))

\* the lines after the first one
DataLines(f) ==
  IF f = Absent THEN <<>>
  ELSE LET lines == readlines(f) IN IF Len(lines) = 0 THEN <<>> ELSE Tail(lines)

\* the header followed by complete rows only
ValidLedger(f) ==
  /\ f # Absent
  /\ IsPrefix(HeaderText, f)
  /\ \A k \in 1..Len(DataLines(f)) : IsRowLine(DataLines(f)[k])
  /\ f = Serialize(readlines(f))

\* the numeric value of field k of a row line
Field(line, k) == split(line)[k][1]

\* the days of the rows of a valid ledger, in file order
RowDays(f) == [k \in 1..Len(DataLines(f)) |-> DayOf(Field(DataLines(f)[k], 1))]

StrictlyIncreasing(sq) == \A k \in 1..(Len(sq) - 1) : sq[k] < sq[k + 1]

Range(sq) == {sq[k] : k \in 1..Len(sq)}

InRun == pc \notin {"idle", "crashed"}

TypeOK ==
  /\ pc \in {"idle", "init", "header", "enum", "resolve", "collect", "write",
             "flush", "done", "aborted", "crashed", "reading"}
  /\ Len(commits) <= MaxCommits
  /\ \A k \in 1..Len(commits) : commits[k] \in Commits
  /\ force_full \in BOOLEAN
  /\ degraded \in BOOLEAN
  /\ prev \in {"none", "completed", "clean", "crashed"}
  /\ crashes \in 0..MaxCrashes
  /\ last_collected # NoDate => IsDayTok(last_collected[1])

\* ------------------------------------------------------------------ claims

\* C1 (monotonic keys): whatever runs of main() have completed or are under
\* way, incremental or forced-full, with commits added between runs, the
\* rows of the ledger are well formed and the days of adjacent rows are
\* strictly increasing, so no day has two rows.
C1_MonotonicKeys ==
  file # Absent =>
    /\ \A k \in 1..Len(DataLines(file)) : IsRowLine(DataLines(file)[k])
    /\ StrictlyIncreasing(RowDays(file))

\* a resumed incremental run has appended a row after the rows it found
C1_Witness ==
  /\ pc = "done"
  /\ ~force_full
  /\ fileAtStart # Absent
  /\ Len(RowDays(fileAtStart)) >= 1
  /\ Len(RowDays(file)) > Len(RowDays(fileAtStart))

\* C2 (resume correctness): in an incremental run that found a ledger whose
\* last row is for day D, the ledger keeps the rows it had and every row
\* added by the run, and every day the run processes, is for a day
\* strictly greater than D.
C2_ResumeCorrectness ==
  (InRun /\ ~force_full /\ Len(DataLines(fileAtStart)) >= 1) =>
    LET old == RowDays(fileAtStart)
        new == RowDays(file)
        D == old[Len(old)]
    IN /\ Len(new) >= Len(old)
       /\ SubSeq(new, 1, Len(old)) = old
       /\ \A k \in (Len(old) + 1)..Len(new) : new[k] > D
       /\ \A k \in 1..Len(dates_to_collect) : dates_to_collect[k] > D
       /\ \A k \in 1..Len(written) : written[k] > D

\* an incremental run on a ledger ending with day 1 appended a row although
\* the history also has a commit of day 1 made after that row was written
C2_Witness ==
  /\ pc = "done"
  /\ ~force_full
  /\ Len(DataLines(fileAtStart)) >= 1
  /\ Len(written) >= 1
  /\ \E k \in 1..Len(commits) :
       commits[k].ad = RowDays(fileAtStart)[Len(RowDays(fileAtStart))]

\* the rows the interrupted run is known to have appended and flushed
RowsBefore == (IF Scratch THEN 0 ELSE Len(DataLines(fileAtStart))) + Len(written)

\* C3 (crash safety): when a run that started on a valid or absent ledger
\* is interrupted after N rows were appended and flushed, the ledger file,
\* if there is one, is the header followed by complete rows only, N or
\* N + 1 of them.
C3_CrashSafety ==
  (/\ pc = "crashed"
   /\ file # Absent
   /\ (fileAtStart = Absent \/ ValidLedger(fileAtStart))) =>
    /\ ValidLedger(file)
    /\ Len(DataLines(file)) \in {RowsBefore, RowsBefore + 1}

\* the days of the complete rows of a ledger
CompleteRowDays(f) ==
  {DayOf(Field(DataLines(f)[k], 1)) :
     k \in {j \in 1..Len(DataLines(f)) : IsRowLine(DataLines(f)[j])}}

\* C4 (safe resume): an incremental run that follows an interrupted run
\* processes no day that the ledger it found records as a complete row,
\* and ends with a ledger that is the header followed by complete rows
\* only, in strictly increasing day order.
C4_SafeResume ==
  (pc = "done" /\ prev = "crashed" /\ ~force_full) =>
    /\ ValidLedger(file)
    /\ StrictlyIncreasing(RowDays(file))
    /\ Range(dates_to_collect) \cap CompleteRowDays(fileAtStart) = {}

\* C5 (idempotence): a run that follows a completed run, with no commit
\* added in between, appends no row and leaves the ledger as it found it.
C5_Idempotence ==
  (pc = "done" /\ prev \in {"completed", "clean"} /\ ~force_full) =>
    /\ written = <<>>
    /\ file = fileAtStart

\* the author days of the history
CommitDays == {commits[k].ad : k \in 1..Len(commits)}

\* C6 (completeness): when a run has completed, the ledger has exactly one
\* row for each commit day up to the day of its last row, in day order.
C6_Completeness ==
  (pc = "done" /\ Len(DataLines(file)) >= 1) =>
    LET days == RowDays(file)
    IN /\ StrictlyIncreasing(days)
       /\ Range(days) = {d \in CommitDays : d <= days[Len(days)]}

RowTotalOk(line) == Field(line, 8) = Field(line, 2) + Field(line, 5)

\* C7 (aggregate correctness): in every row of the ledger, and in the row
\* being written, total_code is frontend code plus backend code.
C7_AggregateCorrectness ==
  /\ \A k \in 1..Len(DataLines(file)) : RowTotalOk(DataLines(file)[k])
  /\ pc = "flush" => RowTotalOk(readlines(buffer)[1])

\* a row with both subtrees measured, and a row with one of them at zero
C7_Witness ==
  /\ \E k \in 1..Len(DataLines(file)) :
       /\ Field(DataLines(file)[k], 2) > 0
       /\ Field(DataLines(file)[k], 5) > 0
  /\ \E k \in 1..Len(DataLines(file)) :
       /\ Field(DataLines(file)[k], 2) = 0
       /\ Field(DataLines(file)[k], 5) > 0

\* the row of day d in a ledger that has exactly one
RowOf(f, d) ==
  LET k == CHOOSE j \in 1..Len(DataLines(f)) : DayOf(Field(DataLines(f)[j], 1)) = d
  IN DataLines(f)[k]

RowMetric(line, first) ==
  [code |-> Field(line, first), comment |-> Field(line, first + 1),
   blank |-> Field(line, first + 2)]

\* the commit a day of this run was resolved to (git worked, or the day
\* would have been skipped)
ResolvedFor(d) == commits[get_commit_for_date(commits, d, TRUE)]

\* what one extract-and-measure block can give for a tree of size s
PossibleMetrics(s) ==
  {ZeroMetric} \cup (IF s > 0 THEN {Metric(s), LangA(s)} ELSE {})

\* C8 (subtree absence): when src or src-tauri/src does not exist at the
\* commit resolved for a day, the day is not skipped for that reason (it is
\* skipped only if no commit was resolved or a tool failed), and its row
\* has code 0, comment 0, blank 0 for that subtree while the other subtree
\* has its own metric (or zero if its measurement failed).
C8_SubtreeAbsence ==
  InRun =>
    /\ \A k \in 1..Len(written) :
         LET d == written[k]
             c == ResolvedFor(d)
             fm == RowMetric(RowOf(file, d), 2)
             bm == RowMetric(RowOf(file, d), 5)
         IN /\ c.fe = 0 => (fm = ZeroMetric /\ bm \in PossibleMetrics(c.be))
            /\ c.be = 0 => (bm = ZeroMetric /\ fm \in PossibleMetrics(c.fe))
            /\ (c.fe = 0 /\ c.be > 0 /\ ~degraded) => bm = Metric(c.be)
            /\ (c.be = 0 /\ c.fe > 0 /\ ~degraded) => fm = Metric(c.fe)
    /\ ~degraded =>
         \A d \in skipped : get_commit_for_date(commits, d, TRUE) = NoCommit

\* a row was written for a commit without src whose src-tauri/src was
\* measured, and one for a commit without src-tauri/src
C8_Witness ==
  /\ InRun
  /\ \E k \in 1..Len(written) :
       /\ ResolvedFor(written[k]).fe = 0
       /\ RowMetric(RowOf(file, written[k]), 5) # ZeroMetric
  /\ \E k \in 1..Len(written) :
       /\ ResolvedFor(written[k]).be = 0
       /\ RowMetric(RowOf(file, written[k]), 2) # ZeroMetric

C10_AppendOnly ==
  InRun =>
    IF Scratch
    THEN /\ pc = "init" => file = fileAtStart
         /\ pc = "header" => file = <<>>
         /\ pc \notin {"init", "header"} =>
              /\ IsPrefix(HeaderText, file)
              /\ Len(DataLines(file)) = Len(written)
    ELSE /\ IsPrefix(fileAtStart, file)
         /\ Len(DataLines(file)) = Len(DataLines(fileAtStart)) + Len(written)

\* an incremental run has appended a row to a ledger that had one
C10_Witness ==
  /\ pc = "done"
  /\ ~Scratch
  /\ Len(DataLines(fileAtStart)) >= 1
  /\ Len(written) >= 1
  /\ file # fileAtStart

\* the tools reported a failure for a block, and no exception was raised
SubFailed(cls) == cls \in {"extract_failed", "unpack_failed", "oracle_failed"}

\* C11 (sub-failures absorbed): when, in the call for a day, git archive or
\* tar fails for a subtree that exists at the commit, or cloc fails on it,
\* and nothing raises, the call returns a result, main() goes on to write
\* the day's row, and the metric of that subtree in it is zero.
C11_SubFailuresAbsorbed ==
  (call # NoCall /\ "raised" \notin {call.fe, call.be}) =>
    /\ SubFailed(call.fe) =>
         pc = "write" /\ stats # NoStats /\ stats[1].frontend = ZeroMetric
    /\ SubFailed(call.be) =>
         pc = "write" /\ stats # NoStats /\ stats[1].backend = ZeroMetric

\* get_all_dates got nothing from git (git log failed, or git could not be
\* started): the only tool that runs before the loop failed
EnumerationFailed ==
  /\ pc \in {"done", "aborted"}
  /\ degraded
  /\ dates_to_collect = <<>>

\* C12 (history backend unreachable): when the history query of
\* get_all_dates fails, the process ends with a non-zero exit status, has
\* appended no row, and has not reported that the data is up to date.
C12_BackendUnreachableAborts ==
  EnumerationFailed =>
    /\ ExitCode # 0
    /\ ~SaidUpToDate
    /\ written = <<>>

\* C13 (nothing to collect): a run that finds no pending day ends with exit
\* status 0, has appended no row, has nothing buffered for the ledger, and
\* leaves the rows of the ledger as it found them.
C13_NothingToCollectNoOp ==
  SaidUpToDate =>
    /\ ExitCode = 0
    /\ written = <<>>
    /\ buffer = <<>>
    /\ DataLines(file) = DataLines(fileAtStart)

\* C14 (scoped cleanup): when a call of collect_stats_for_commit has
\* returned, whether with a result or through the except clause, nothing of
\* the temporary directory it created is left unless rmtree itself failed;
\* and whatever rmtree did, the call returned to the loop, which writes the
\* row when there is a result and moves to the next day when there is none.
C14_ScopedCleanup ==
  call # NoCall =>
    /\ ~call.rm_failed => call.left = {}
    /\ pc = IF stats = NoStats THEN "resolve" ELSE "write"
    /\ stats = NoStats <=> ("raised" \in {call.fe, call.be} \/ call.fe = "not_run")

\* a call created the temporary directory and the frontend directory, then
\* raised in the backend block, and nothing is left
C14_Witness ==
  /\ pc = "resolve"
  /\ call.fe = "ok"
  /\ call.be = "raised"
  /\ stats = NoStats
  /\ call.left = {}

\* C15 (working tree untouched): no step of a run writes anywhere but to
\* the ledger file and under the temporary directory, and no step of a run
\* changes the history.
C15_WorkingTreeUntouched ==
  [][/\ touched' \subseteq {"ledger", "tmp"}
     /\ pc # "idle" => commits' = commits]_vars

\* a run has unpacked a snapshot and written its row
C15_Witness ==
  /\ pc = "done"
  /\ touched = {"ledger", "tmp"}
  /\ Len(written) >= 1

OutputLines(txt) == SplitLines(txt, <<>>)

\* C17 (oracle adapter is total): whatever subprocess.run gives, run_cloc
\* returns a metric of three non-negative integers; the metric is all zero
\* when the directory does not exist, when cloc cannot be started, when no
\* line of the output has counts to take (only headers, short rows, notes
\* and empty lines), and when int() raises on the last line.
C17_OracleNeverRaises ==
  cloc_out # <<>> =>
    LET in == cloc_in[1]
        out == cloc_out[1]
        lines == OutputLines(in.proc.stdout)
    IN /\ out.code \in Nat /\ out.comment \in Nat /\ out.blank \in Nat
       /\ ~in.exists => out = ZeroMetric
       /\ in.proc.raises => out = ZeroMetric
       /\ (\A k \in 1..Len(lines) :
             lines[k] \in {ClocHeader, ClocShortRow, ClocNote, <<>>})
          => out = ZeroMetric
       /\ (Len(lines) > 0 /\ lines[Len(lines)] = ClocBadRow)
          => out = ZeroMetric

\* run_cloc returned the zero metric for an output whose last line makes
\* int() raise, after a SUM row
C17_Witness ==
  /\ cloc_out = <<ZeroMetric>>
  /\ cloc_in[1].exists
  /\ ~cloc_in[1].proc.raises
  /\ OutputLines(cloc_in[1].proc.stdout) = <<ClocSumRow, ClocBadRow>>

\* the commits whose commit timestamp is on day d or before
UpTo(d) == {k \in 1..Len(commits) : commits[k].cd <= d}

\* the pending days the loop is done with
Processed == {dates_to_collect[k] : k \in 1..(i - 1)}

\* C18 (resolver): the commit main() collects for a day is the one with the
\* latest commit timestamp among the commits of all branches dated that day
\* or before; a pending day with no such commit is skipped, gets no row, and
\* the loop goes on to the days after it.
C18_ResolverLatestUpTo ==
  /\ pc \in {"collect", "write", "flush"} =>
       /\ commit \in UpTo(dates_to_collect[i])
       /\ \A k \in UpTo(dates_to_collect[i]) : k <= commit
  /\ pc \in {"resolve", "collect", "write", "flush", "done"} =>
       \A d \in Processed :
         UpTo(d) = {} => d \in skipped /\ d \notin Range(written)
  /\ (pc = "done" /\ ~SaidUpToDate) =>
       Processed = Range(dates_to_collect)

\* day 1 had no commit dated up to it and was skipped, and the row of day
\* 2 was written from the later of two commits
C18_Witness ==
  /\ pc = "done"
  /\ dates_to_collect = <<1, 2>>
  /\ UpTo(1) = {}
  /\ 1 \in skipped
  /\ written = <<2>>
  /\ UpTo(2) = {1, 2}

\* the first field of the last line of f that is a complete row, None
\* when there is none
LastRowDay(f) ==
  IF f = Absent THEN NoDate
  ELSE LET lines == readlines(f)
           rows == {k \in 1..Len(lines) : IsRowLine(lines[k])}
       IN IF rows = {} THEN NoDate
          ELSE LET last == CHOOSE k \in rows : \A j \in rows : j <= k
               IN split(lines[last])[1]

\* C19 (resume point): what get_last_collected_date returns for the ledger
\* a run finds is the day of the last row of that ledger, and None when
\* the ledger is absent, empty or holds only the header; it is never the
\* first field of a line that is not a complete row.
C19_ResumePoint ==
  (pc = "init" /\ ~force_full) =>
    /\ last_collected = LastRowDay(fileAtStart)
    /\ last_collected # NoDate =>
         /\ last_collected # <<ColDate>>
         /\ IsRowLine(readlines(fileAtStart)[Len(readlines(fileAtStart))])

\* C20 (initialize): when main() reaches the enumeration, the ledger is the
\* header alone and the resume point is None if the run found no file or
\* was given --full; otherwise the ledger is the file the run found and the
\* resume point is what get_last_collected_date read from it.
C20_Initialize ==
  pc = "enum" =>
    IF fileAtStart = Absent \/ force_full
    THEN file = HeaderText /\ last_collected = NoDate
    ELSE /\ file = fileAtStart
         /\ last_collected = get_last_collected_date(fileAtStart)

\* an incremental run found a ledger with a row and left it alone, with
\* the day of that row as resume point
C20_Witness ==
  /\ pc = "enum"
  /\ ~force_full
  /\ fileAtStart # Absent
  /\ Len(DataLines(fileAtStart)) >= 1
  /\ file = fileAtStart
  /\ last_collected # NoDate

\* the loop of the run has been entered, or the run returned early
AfterInit == pc \in {"enum", "resolve", "collect", "write", "flush", "done"}

\* C21 (ledger validity): once main() has initialised the ledger, and after
\* every flush of a row, the ledger is the header line of 8 columns followed
\* by complete rows only, each a day and 7 non-negative integers; the row
\* about to be appended holds the day, then code, comment and blank lines of
\* the frontend, then the same of the backend, then the total code.
C21_LedgerValidity ==
  /\ AfterInit =>
       /\ ValidLedger(file)
       /\ Len(split(readlines(file)[1])) = 8
       /\ \A k \in 1..Len(DataLines(file)) :
            \A n \in 2..8 : Field(DataLines(file)[k], n) \in Nat
  /\ pc = "flush" =>
       LET row == readlines(buffer)
       IN /\ Len(row) = 1
          /\ buffer = Serialize(row)
          /\ IsRowLine(row[1])
          /\ Field(row[1], 1) = DayTok(dates_to_collect[i])
          /\ <<Field(row[1], 2), Field(row[1], 3), Field(row[1], 4)>> =
               <<stats[1].frontend.code, stats[1].frontend.comment,
                 stats[1].frontend.blank>>
          /\ <<Field(row[1], 5), Field(row[1], 6), Field(row[1], 7)>> =
               <<stats[1].backend.code, stats[1].backend.comment,
                 stats[1].backend.blank>>
          /\ Field(row[1], 8) = stats[1].total_code

\* a run appended two rows to the header it wrote, and the second row had
\* a comment count that differs from its code count
C21_Witness ==
  /\ pc = "resolve"
  /\ Len(written) = 2
  /\ file # Absent
  /\ Len(DataLines(file)) = 2
  /\ Field(DataLines(file)[2], 2) # Field(DataLines(file)[2], 3)

\* C22 (rows only for commit days): every pending day and every row of the
\* ledger is an author day of some commit, so a day without a commit gets
\* no row even when earlier commits exist; and when a run that started from
\* an empty ledger completed with no failure and no skipped day, the ledger
\* has exactly one row per commit day, whose total is the code of both
\* subtrees at the commit resolved for that day.
C22_RowsOnlyForCommitDays ==
  /\ Range(dates_to_collect) \subseteq CommitDays
  /\ \A k \in 1..Len(DataLines(file)) :
       DayOf(Field(DataLines(file)[k], 1)) \in CommitDays
  /\ (pc = "done" /\ Scratch /\ ~degraded /\ skipped = {}
        /\ ~SaidUpToDate) =>
       /\ Len(DataLines(file)) = Cardinality(CommitDays)
       /\ Range(RowDays(file)) = CommitDays
       /\ \A d \in CommitDays :
            Field(RowOf(file, d), 8) =
              Metric(ResolvedFor(d).fe).code + Metric(ResolvedFor(d).be).code

\* a run completed on a history whose two commits are both of day 1: the
\* ledger has the row of day 1 and none for day 2
C22_Witness ==
  /\ pc = "done"
  /\ Len(commits) = 2
  /\ CommitDays = {1}
  /\ UpTo(2) = {1, 2}
  /\ file # Absent
  /\ RowDays(file) = <<1>>
  /\ Field(RowOf(file, 1), 8) > 0

\* the loop over the pending days is running
InLoop == pc \in {"resolve", "collect", "write", "flush"}

\* C23 (day ordering and single append): the pending days are in strictly
\* ascending order and the loop takes them one by one in that order; each
\* day the loop is done with was either skipped or given a row, never both;
\* the ledger grows by exactly one row per day given a row; and a row is
\* written only when a commit was resolved for the day and both blocks of
\* collect_stats_for_commit have run for it.
C23_DayOrdering ==
  /\ []( /\ (InLoop \/ pc = "done") =>
              /\ StrictlyIncreasing(dates_to_collect)
              /\ StrictlyIncreasing(written)
              /\ i \in 1..(Len(dates_to_collect) + 1)
              /\ Range(written) \cap skipped = {}
              /\ Range(written) \cup skipped = Processed
              /\ Len(DataLines(file)) = RowsBefore
         /\ pc \in {"write", "flush"} =>
              /\ commit # NoCommit
              /\ stats # NoStats
              /\ dates_to_collect[i] \notin Processed
         /\ pc = "write" =>
              /\ call.fe \notin {"none", "not_run", "raised"}
              /\ call.be \notin {"none", "not_run", "raised"} )
  /\ [][(InLoop /\ pc' # "idle") =>
          /\ i' = i \/ (i' = i + 1 /\ pc \in {"resolve", "collect", "flush"})
          /\ written' # written =>
               /\ pc = "flush"
               /\ written' = Append(written, dates_to_collect[i])
               /\ i' = i + 1
          /\ dates_to_collect' = dates_to_collect]_vars

\* of two pending days the first was skipped though a commit was resolved
\* for it, and the second got its row
C23_Witness ==
  /\ pc = "done"
  /\ dates_to_collect = <<1, 2>>
  /\ UpTo(1) # {}
  /\ skipped = {1}
  /\ written = <<2>>

\* the text of f after its first n tokens
Rest(f, n) == SubSeq(f, n + 1, Len(f))

\* what the ledger held when the loop of this run began
LoopBase == IF Scratch THEN HeaderText ELSE fileAtStart

\* C24 (rows committed per day): whenever the loop is at a day, and when a
\* run ends or is interrupted after the loop began, the ledger is what it
\* was when the loop began followed by the complete rows of all the days
\* this run has given a row, in order; nothing is buffered except, between
\* writerow and flush, the one row of the day in progress, so an
\* interruption loses no row but that one.
C24_RowsCommittedPerDay ==
  (InLoop \/ (pc \in {"done", "crashed", "aborted"} /\ written # <<>>)) =>
    /\ IsPrefix(LoopBase, file)
    /\ LET added == readlines(Rest(file, Len(LoopBase)))
       IN /\ Len(added) >= Len(written)
          /\ \A k \in 1..Len(written) :
               /\ IsRowLine(added[k])
               /\ Field(added[k], 1) = DayTok(written[k])
          /\ IsPrefix(Serialize(SubSeq(added, 1, Len(written))),
                      Rest(file, Len(LoopBase)))
          /\ pc # "crashed" => Len(added) = Len(written)
    /\ pc # "flush" => buffer = <<>>
    /\ pc = "flush" => Len(readlines(buffer)) = 1

\* the process was killed while day 2 was in progress: the row of day 1 is
\* in the ledger
C24_Witness ==
  /\ pc = "crashed"
  /\ dates_to_collect = <<1, 2>>
  /\ written = <<1>>
  /\ i = 2
  /\ commit # NoCommit
  /\ RowDays(file) = <<1>>

\* C25 (driver state machine): a run ends by an exception only before its
\* loop over the days has begun; no step of the loop aborts the run.
C25_AbortedFromInitializingOnly ==
  [][pc' = "aborted" => pc \in {"init", "header", "enum"}]_vars

\* C26 (preparation failure is per-day): when, in the call for a day, the
\* temporary directory cannot be created, the directory of a subtree cannot
\* be created, or tar fails to unpack a subtree, the call returns no
\* result, the day is skipped, the ledger has no row for it, and the loop
\* is at the next day.
C26_PrepFailureSkipsDay ==
  (/\ call # NoCall
   /\ \/ call.fe \in {"not_run", "raised", "unpack_failed"}
      \/ call.be \in {"raised", "unpack_failed"}) =>
    /\ stats = NoStats
    /\ pc = "resolve"
    /\ dates_to_collect[i - 1] \in skipped
    /\ dates_to_collect[i - 1] \notin Range(written)
    /\ Len(DataLines(file)) = RowsBefore

IsDataRow(line) ==
  Len(line) > 0 /\ line[1] # WordFiles /\ Len(split(line)) >= 5

\* the fields of the last data row of a cloc output that has one
LastDataRow(lines) ==
  LET rows == {k \in 1..Len(lines) : IsDataRow(lines[k])}
  IN split(lines[CHOOSE k \in rows : \A j \in rows : j <= k])

\* the value of a count field: the number it spells, 0 for any other text
PlainOrZero(p) ==
  IF Len(p) = 1 /\ p[1] \in Nat /\ p[1] < DayBase THEN p[1] ELSE 0

\* run_cloc was called on a directory that exists and cloc printed a data row
RanOnDataRows ==
  /\ cloc_out # <<>>
  /\ cloc_in[1].exists
  /\ ~cloc_in[1].proc.raises
  /\ \E k \in 1..Len(OutputLines(cloc_in[1].proc.stdout)) :
       IsDataRow(OutputLines(cloc_in[1].proc.stdout)[k])

\* C28 as stated (aggregate-row selection): the metric run_cloc returns is
\* read from the last data row of the output, never from the header or an
\* earlier row: blank, comment and code are its fields 3, 4 and 5, each
\* replaced by 0 when it is not a plain non-negative integer.
C28_FieldsCoercedOneByOne ==
  RanOnDataRows =>
    LET parts == LastDataRow(OutputLines(cloc_in[1].proc.stdout))
    IN cloc_out[1] = [blank |-> PlainOrZero(parts[3]),
                      comment |-> PlainOrZero(parts[4]),
                      code |-> PlainOrZero(parts[5])]

\* C28 (aggregate-row selection, amended): the metric run_cloc returns is
\* read from the last data row of the output, never from the header or an
\* earlier row: blank, comment and code are its fields 3, 4 and 5, each
\* replaced by 0 when isdigit() rejects it; when isdigit() accepts one of
\* the three fields and int() raises on it, the whole metric is zero.
C28_AggregateRowSelection ==
  RanOnDataRows =>
    LET parts == LastDataRow(OutputLines(cloc_in[1].proc.stdout))
    IN IF \E j \in 3..5 : parts[j] = <<WordBadDigit>>
       THEN cloc_out[1] = ZeroMetric
       ELSE cloc_out[1] = [blank |-> PlainOrZero(parts[3]),
                           comment |-> PlainOrZero(parts[4]),
                           code |-> PlainOrZero(parts[5])]

\* run_cloc returned the counts of the SUM row that follows a language row
C28_Witness ==
  /\ cloc_out = <<Metric(1)>>
  /\ cloc_in[1].exists
  /\ OutputLines(cloc_in[1].proc.stdout) = <<ClocLangRow, ClocSumRow>>
  /\ Metric(1) # LangA(1)

\* the commit days that have no row in ledger f though f has a row of a
\* later day
GapDays(f) ==
  {d \in CommitDays :
     /\ d \notin Range(RowDays(f))
     /\ \E k \in 1..Len(RowDays(f)) : RowDays(f)[k] > d}

\* the commit days later than every row of ledger f
DaysAfter(f) ==
  {d \in CommitDays : \A k \in 1..Len(RowDays(f)) : RowDays(f)[k] < d}

\* C29 (permanent gaps): in a run without --full on an existing ledger, a
\* commit day that has no row though a later day has one is never pending
\* and gets no row; the commit days later than every row are exactly the
\* pending days when the enumeration worked; and the pending days of a run
\* with --full are all the commit days, gaps included.
C29_PermanentGaps ==
  (InLoop \/ pc = "done") =>
    /\ ~Scratch =>
         /\ GapDays(fileAtStart) \cap Range(dates_to_collect) = {}
         /\ GapDays(fileAtStart) \cap Range(RowDays(file)) = {}
         /\ (dates_to_collect # <<>> \/ ~degraded) =>
              Range(dates_to_collect) = DaysAfter(fileAtStart)
    /\ (force_full /\ dates_to_collect # <<>>) =>
         Range(dates_to_collect) = CommitDays

\* the history is as it was when the last run completed, the ledger has a
\* row for day 2 and none for day 1, and a run without --full has ended
\* without collecting day 1
C29_Witness ==
  /\ pc = "done"
  /\ ~force_full
  /\ prev = "completed"
  /\ fileAtStart # Absent
  /\ GapDays(fileAtStart) = {1}
  /\ RowDays(file) = <<2>>

\* the header followed by the complete rows of the days this run has given
\* a row, and then by text t
RebuiltWith(t) ==
  /\ IsPrefix(HeaderText, file)
  /\ LET body == Rest(file, Len(HeaderText))
         added == readlines(body)
         rows == Serialize(SubSeq(added, 1, Len(written)))
     IN /\ Len(added) >= Len(written)
        /\ \A k \in 1..Len(written) :
             /\ IsRowLine(added[k])
             /\ Field(added[k], 1) = DayTok(written[k])
        /\ body = rows \o t

\* C30 (forced-full ordering): in a run with --full the file is emptied
\* before the header is written, holds the header alone when the days are
\* enumerated, and from then on holds the header and the rows this run
\* wrote, nothing else; it is the header alone when no day is pending; and
\* when the run is interrupted after the file was opened for writing, the
\* file is a prefix of the header, or the header, the rows this run wrote
\* and a prefix of the row that was being written.
C30_ForcedFullOrdering ==
  force_full =>
    /\ pc = "header" => file = <<>> /\ written = <<>>
    /\ pc = "enum" =>
         file = HeaderText /\ dates_to_collect = <<>> /\ written = <<>>
    /\ (InLoop \/ pc \in {"done", "aborted"}) => RebuiltWith(<<>>)
    /\ SaidUpToDate => file = HeaderText
    /\ (pc = "crashed" /\ "ledger" \in touched) =>
         \/ IsPrefix(file, HeaderText)
         \/ RebuiltWith(<<>>)
         \/ /\ stats # NoStats
            /\ \E n \in 1..RowLen :
                 RebuiltWith(SubSeq(writerow(RowFields(dates_to_collect[i],
                                                       stats[1])), 1, n))

\* a run with --full that found a ledger of two rows was interrupted after
\* it had written the row of day 1
C30_Witness ==
  /\ pc = "crashed"
  /\ force_full
  /\ fileAtStart # Absent
  /\ Len(DataLines(fileAtStart)) = 2
  /\ written = <<1>>
  /\ file # Absent
  /\ RowDays(file) = <<1>>

\* C31 (ledger consumer agreement): whatever ledger the collector left,
\* get_project_stats ends without an exception with frontend_loc,
\* backend_loc and total_loc set, to fields 2, 5 and 8 of the last row when
\* the ledger has rows and to 0 otherwise, and with daily_loc computed.
C31_ConsumerAgreement ==
  card # NoCard =>
    /\ ~card[1].raised
    /\ card[1].daily_loc # <<>>
    /\ card[1].loc =
         IF Len(DataLines(file)) >= 1
         THEN LET last == DataLines(file)[Len(DataLines(file))]
              IN <<Field(last, 2), Field(last, 5), Field(last, 8)>>
         ELSE <<0, 0, 0>>

\* the rows of the ledger whose total_code reaches the threshold
Reaching(f, threshold) ==
  {r \in 1..Len(DataLines(f)) : Field(DataLines(f)[r], 8) >= threshold}

\* the smallest element of a non-empty set of naturals
Least(S) == CHOOSE n \in S : \A m \in S : n <= m

\* the days of the ledger's rows increase strictly
IncreasingDays(f) ==
  \A r \in 1..(Len(DataLines(f)) - 1) :
    Field(DataLines(f)[r], 1) < Field(DataLines(f)[r + 1], 1)

\* C32 (code-size milestones): find_milestones ends without an exception
\* and, for each threshold T of the list, gives at most one code milestone,
\* none if no row of the ledger reaches T and otherwise one dated with the
\* day of the first row, in ledger order, whose total_code >= T; on a
\* ledger whose days increase strictly, of two milestones the one for the
\* smaller threshold is not dated later.
C32_CodeMilestones ==
  milestones # NoMilestones =>
    LET ms == milestones[1].milestones
        Of(T) == {k \in 1..Len(ms) : ms[k].threshold = T}
    IN /\ ~milestones[1].raised
       /\ \A k \in 1..Len(ms) :
            /\ ms[k].category = "code"
            /\ \E t \in 1..Len(loc_milestones) :
                 ms[k].threshold = loc_milestones[t]
       /\ \A t \in 1..Len(loc_milestones) :
            LET T == loc_milestones[t]
            IN /\ Cardinality(Of(T)) <= 1
               /\ Reaching(file, T) = {} => Of(T) = {}
               /\ Reaching(file, T) # {} =>
                    \E k \in Of(T) :
                      ms[k].date =
                        <<Field(DataLines(file)[Least(Reaching(file, T))], 1)>>
       /\ IncreasingDays(file) =>
            \A a, b \in 1..Len(ms) :
              ms[a].threshold < ms[b].threshold =>
                ~TextLess(ms[b].date, ms[a].date)

\* find_milestones ran on a ledger of two rows of which the first reaches
\* the first threshold only and the second the next one as well, and gave
\* a milestone for each, the last threshold being reached by no row
C32_Witness ==
  /\ milestones # NoMilestones
  /\ Len(DataLines(file)) = 2
  /\ Reaching(file, loc_milestones[1]) = {1, 2}
  /\ Reaching(file, loc_milestones[2]) = {2}
  /\ Reaching(file, loc_milestones[4]) = {}
  /\ Len(milestones[1].milestones) >= 2
  /\ milestones[1].milestones[1].date # milestones[1].milestones[2].date

====
